---- MODULE Spec2Model ----
(***************************************************************************)
(* State-machine model of the YouTube playlist creator:                    *)
(*   playlist_manager.py  PlaylistManager (find / create / list / insert)  *)
(*   video_search.py      VideoSearcher (handle lookup, paged search,      *)
(*                        merge and sort)                                  *)
(*   main.py              main (argument checks, search, synchronisation)  *)
(* The remote platform is part of the state: the principal's playlists,    *)
(* every playlist's membership and every channel's matching videos.  Each  *)
(* remote request is one step that either answers or raises HttpError.     *)
(***************************************************************************)
EXTENDS Integers, Sequences, FiniteSets, TLC

\* ------------------------------------------------------------------ bounds
MaxVideos == 3        \* longest input list of a sync call
MaxItems == 4         \* longest playlist membership the model lets a call start towards
ServerPageCap == 2    \* most items the platform puts on one page of a listing
SearchPageCap == 1    \* most items the platform puts on one page of a search
MaxPlaylists == 3     \* most playlists the account holds
MaxChannels == 2      \* longest list of channel descriptors of a search
MaxChannelVideos == 3 \* most matching videos of one channel
MaxPerChannel == 2    \* small values of max_results_per_channel tried besides 50
MaxRuns == 1          \* runs of main on one account
TicksPerHour == 2     \* instants of one hour the model tells apart
MaxDay == 3           \* calendar days 1..MaxDay; the current instant lies in day 2
MaxOffset == 1        \* the local zone is within this many hours of UTC
MaxDescLen == 104     \* longest raw description of a video
MaxToken == 2         \* page tokens 1..MaxToken that a platform hands out in turn

\* ------------------------------------------------------- program constants
MaxResultsPage == 50  \* maxResults of playlists().list and playlistItems().list
MaxResultsPerChannel == 50  \* max_results_per_channel that main passes
DescriptionLimit == 100     \* longest description stored as it is

None == 0             \* Python None for ids and page tokens
Running == -1         \* the process has not exited
NoDate == ""          \* --date not given
Today == "2024-01-01" \* date.today()
NoRun == <<>>         \* no earlier run to compare with
NoCall == [called |-> FALSE, title |-> "", playlist_id |-> None]

ChannelIds == {1, 2}  \* the channels of the platform
Times == {1, 2}       \* publish instants
VideoIds == {1, 2, 3} \* the videos T1 < T2 < T3 of the platform
PlaylistIds == 1..MaxPlaylists
Titles == {"news_20240101", "news_20240102"}

VARIABLES
  playlists,          \* remote: the principal's playlists, in listing order
  items,              \* remote: playlist id -> sequence of member video ids
  pc,                 \* position of the program
  caller,             \* who runs the PlaylistManager / VideoSearcher call
  requests,           \* remote requests issued by the current call or run
  title,              \* get_or_create_playlist: title
  find_result,        \* get_or_create_playlist: id from find_existing_playlist
  playlist_id,        \* get_or_create_playlist: returned id (None = null)
  playlist_url,       \* get_or_create_playlist: returned URL (None = null)
  is_existing,        \* get_or_create_playlist: returned flag
  prev_goc,           \* result of the previous get_or_create_playlist call
  sync_playlist,      \* add_videos_to_playlist: playlist_id
  videos,             \* add_videos_to_playlist: videos
  skip_duplicates,    \* add_videos_to_playlist: skip_duplicates
  existing_video_ids, \* add_videos_to_playlist: existing_video_ids
  video_ids,          \* get_playlist_video_ids: video_ids
  next_page_token,    \* get_playlist_video_ids: next_page_token
  idx,                \* add_videos_to_playlist: position of the for loop
  successful_adds,    \* add_videos_to_playlist: successful_adds
  failed_adds,        \* add_videos_to_playlist: failed_adds
  skipped_duplicates, \* add_videos_to_playlist: skipped_duplicates
  items_before,       \* membership of sync_playlist when the call started
  prev_sync,          \* counters of the run this call repeats (NoRun: no repeat)
  platform,           \* remote: channel id -> the channel's videos, platform order
  channel_configs,    \* search_multiple_channels: channel_configs
  max_results,        \* search_multiple_channels: max_results_per_channel
  ci,                 \* search_multiple_channels: position of the channel loop
  channel_id,         \* search_multiple_channels: channel_id
  channel_videos,     \* search_channel_videos: videos
  page_token,         \* search_channel_videos: next_page_token
  all_videos,         \* search_multiple_channels: all_videos
  chan_status,        \* per channel visited: did a request fail, resolved id
  args_date,          \* main: args.date
  args_category,      \* main: args.category
  target_date,        \* main: target_date
  exit_status,        \* exit status of the process (Running while it runs)
  outcome,            \* which end of main the run took
  runs,               \* runs of main started so far
  now,                \* environment: the current instant, datetime.now(timezone.utc)
  utc_offset,         \* environment: hours the local zone is ahead of UTC
  self_target_date,   \* DateConfig: self.target_date
  self_hours_back,    \* DateConfig: self.hours_back
  start_time,         \* get_date_range: start_time
  end_time            \* get_date_range: end_time

vars == <<playlists, items, pc, caller, requests, title, find_result,
          playlist_id, playlist_url, is_existing, prev_goc, sync_playlist, videos,
          skip_duplicates, existing_video_ids, video_ids, next_page_token,
          idx, successful_adds, failed_adds, skipped_duplicates,
          items_before, prev_sync, platform, channel_configs, max_results,
          ci, channel_id, channel_videos, page_token, all_videos, chan_status,
          args_date, args_category, target_date, exit_status, outcome, runs,
          now, utc_offset, self_target_date, self_hours_back, start_time,
          end_time>>

remoteVars == <<playlists, items>>
gocVars == <<title, find_result, playlist_id, playlist_url, is_existing, prev_goc>>
syncVars == <<sync_playlist, videos, skip_duplicates, existing_video_ids,
              video_ids, next_page_token, idx, successful_adds, failed_adds,
              skipped_duplicates, items_before, prev_sync>>
searchVars == <<platform, channel_configs, max_results, ci, channel_id,
                channel_videos, page_token, all_videos, chan_status>>
mainVars == <<args_date, args_category, target_date, exit_status, outcome, runs>>
dateVars == <<now, utc_offset, self_target_date, self_hours_back, start_time,
              end_time>>

\* ----------------------------------------------------------------- helpers
Min(a, b) == IF a < b THEN a ELSE b

Range(s) == {s[k] : k \in 1..Len(s)}

SeqsUpTo(S, n) == UNION {[1..m -> S] : m \in 0..n}

NoRepeat(s) == \A a, b \in 1..Len(s) : s[a] = s[b] => a = b

Count(s, x) == Cardinality({k \in 1..Len(s) : s[k] = x})

\* ------------------------------------------------------------ remote side
PlaylistExists(pid) == \E k \in 1..Len(playlists) : playlists[k].id = pid

\* playlists().list(mine=True, maxResults=50): one page of the account
PlaylistsListPage == SubSeq(playlists, 1, Min(MaxResultsPage, Len(playlists)))

\* playlistItems().list(playlistId, maxResults=50, pageToken): the page that
\* starts after `token` members, and the token of the next page (None: last)
ItemsPage(pid, token) ==
  LET all == items[pid]
      n == Min(Min(MaxResultsPage, ServerPageCap), Len(all) - token)
  IN  [ids |-> SubSeq(all, token + 1, token + n),
       nextPageToken |-> IF token + n < Len(all) THEN token + n ELSE None]

Request(op, arg, ok) == [op |-> op, arg |-> arg, ok |-> ok]

\* ------------------------------------------- PlaylistManager: get or create
\* _get_playlist_url
PlaylistUrl(pid) == <<"https://www.youtube.com/playlist?list=", pid>>

\* find_existing_playlist: id of the first item of the page with this title
FirstMatch(page, t) ==
  IF \E k \in 1..Len(page) : page[k].title = t
  THEN page[CHOOSE k \in 1..Len(page) :
              /\ page[k].title = t
              /\ \A j \in 1..(k - 1) : page[j].title # t].id
  ELSE None

FindExistingPlaylist ==
  /\ pc = "find_existing_playlist"
  /\ \E ok \in BOOLEAN :
       /\ find_result' = IF ok THEN FirstMatch(PlaylistsListPage, title) ELSE None
       /\ requests' = Append(requests, Request("playlists.list", title, ok))
  /\ pc' = "get_or_create_playlist"
  /\ UNCHANGED <<dateVars, mainVars, searchVars, remoteVars, caller, title, playlist_id, playlist_url, is_existing, prev_goc, syncVars>>

\* get_or_create_playlist, lines 103-104: an id was found
GetOrCreateFound ==
  /\ pc = "get_or_create_playlist"
  /\ find_result # None
  /\ playlist_id' = find_result
  /\ playlist_url' = PlaylistUrl(find_result)
  /\ is_existing' = TRUE
  /\ pc' = "goc_done"
  /\ UNCHANGED <<dateVars, mainVars, searchVars, remoteVars, caller, requests, title, find_result, prev_goc, syncVars>>

\* get_or_create_playlist, line 107: nothing found, go on to create
GetOrCreateNotFound ==
  /\ pc = "get_or_create_playlist"
  /\ find_result = None
  /\ pc' = "create_playlist"
  /\ UNCHANGED <<dateVars, mainVars, searchVars, remoteVars, caller, requests, gocVars, syncVars>>

CreatePlaylistOk ==
  /\ pc = "create_playlist"
  /\ Len(playlists) < MaxPlaylists
  /\ LET new == Len(playlists) + 1
     IN  /\ playlists' = Append(playlists, [id |-> new, title |-> title])
         /\ playlist_id' = new
         /\ playlist_url' = PlaylistUrl(new)
  /\ is_existing' = FALSE
  /\ requests' = Append(requests, Request("playlists.insert", title, TRUE))
  /\ pc' = "goc_done"
  /\ UNCHANGED <<dateVars, mainVars, searchVars, items, caller, title, find_result, prev_goc, syncVars>>

\* a failed create that still hands an id to the caller
CreatePlaylistFail_ReturnsId ==
  /\ pc = "create_playlist"
  /\ playlist_id' = Len(playlists) + 1
  /\ playlist_url' = PlaylistUrl(Len(playlists) + 1)
  /\ is_existing' = FALSE
  /\ requests' = Append(requests, Request("playlists.insert", title, FALSE))
  /\ pc' = "goc_done"
  /\ UNCHANGED <<dateVars, mainVars, searchVars, remoteVars, caller, title, find_result, prev_goc, syncVars>>

CreatePlaylistFail ==
  /\ pc = "create_playlist"
  /\ playlist_id' = None
  /\ playlist_url' = None
  /\ is_existing' = FALSE
  /\ requests' = Append(requests, Request("playlists.insert", title, FALSE))
  /\ pc' = "goc_done"
  /\ UNCHANGED <<dateVars, mainVars, searchVars, remoteVars, caller, title, find_result, prev_goc, syncVars>>

\* ------------------------------------- PlaylistManager: membership listing
GetPlaylistVideoIdsPage ==
  /\ pc = "get_playlist_video_ids"
  /\ PlaylistExists(sync_playlist)
  /\ LET page == ItemsPage(sync_playlist, next_page_token)
         seen == video_ids \cup Range(page.ids)
     IN  /\ requests' = Append(requests,
                               Request("playlistItems.list", next_page_token, TRUE))
         /\ video_ids' = seen
         /\ next_page_token' = page.nextPageToken
         /\ IF page.nextPageToken = None
            THEN /\ existing_video_ids' = seen
                 /\ pc' = "add_videos_loop"
            ELSE /\ UNCHANGED existing_video_ids
                 /\ pc' = "get_playlist_video_ids"
  /\ UNCHANGED <<dateVars, mainVars, searchVars, remoteVars, caller, gocVars, sync_playlist, videos, skip_duplicates,
                 idx, successful_adds, failed_adds, skipped_duplicates,
                 items_before, prev_sync>>

\* HttpError on a page: the listing returns set()
GetPlaylistVideoIdsFail ==
  /\ pc = "get_playlist_video_ids"
  /\ requests' = Append(requests,
                        Request("playlistItems.list", next_page_token, FALSE))
  /\ existing_video_ids' = {}
  /\ pc' = "add_videos_loop"
  /\ UNCHANGED <<dateVars, mainVars, searchVars, remoteVars, caller, gocVars, sync_playlist, videos, skip_duplicates,
                 video_ids, next_page_token, idx, successful_adds, failed_adds,
                 skipped_duplicates, items_before, prev_sync>>

\* ------------------------------------------- PlaylistManager: add videos
\* line 151
IsDuplicate(video_id) == skip_duplicates /\ video_id \in existing_video_ids

loopFrame == <<caller, gocVars, sync_playlist, videos, skip_duplicates,
               existing_video_ids, video_ids, next_page_token, items_before,
               prev_sync>>

\* variants of the loop body with a slip in them, used to test the properties
AddVideoFail_NoCount ==
  /\ pc = "add_videos_loop"
  /\ idx <= Len(videos)
  /\ ~IsDuplicate(videos[idx].video_id)
  /\ requests' = Append(requests, Request("playlistItems.insert", idx, FALSE))
  /\ idx' = idx + 1
  /\ UNCHANGED <<dateVars, mainVars, searchVars, remoteVars, pc, successful_adds, failed_adds, skipped_duplicates,
                 loopFrame>>

AddVideoFail_Abort ==
  /\ pc = "add_videos_loop"
  /\ idx <= Len(videos)
  /\ ~IsDuplicate(videos[idx].video_id)
  /\ requests' = Append(requests, Request("playlistItems.insert", idx, FALSE))
  /\ failed_adds' = failed_adds + 1
  /\ idx' = Len(videos) + 1
  /\ UNCHANGED <<dateVars, mainVars, searchVars, remoteVars, pc, successful_adds, skipped_duplicates, loopFrame>>

AddVideoOk_Prepend ==
  /\ pc = "add_videos_loop"
  /\ idx <= Len(videos)
  /\ ~IsDuplicate(videos[idx].video_id)
  /\ PlaylistExists(sync_playlist)
  /\ items' = [items EXCEPT ![sync_playlist] = <<videos[idx].video_id>> \o @]
  /\ requests' = Append(requests, Request("playlistItems.insert", idx, TRUE))
  /\ successful_adds' = successful_adds + 1
  /\ idx' = idx + 1
  /\ UNCHANGED <<dateVars, mainVars, searchVars, playlists, pc, failed_adds, skipped_duplicates, loopFrame>>

SkipDuplicate ==
  /\ pc = "add_videos_loop"
  /\ idx <= Len(videos)
  /\ IsDuplicate(videos[idx].video_id)
  /\ skipped_duplicates' = skipped_duplicates + 1
  /\ idx' = idx + 1
  /\ UNCHANGED <<dateVars, mainVars, searchVars, remoteVars, pc, requests, successful_adds, failed_adds, loopFrame>>

AddVideoOk ==
  /\ pc = "add_videos_loop"
  /\ idx <= Len(videos)
  /\ ~IsDuplicate(videos[idx].video_id)
  /\ PlaylistExists(sync_playlist)
  /\ items' = [items EXCEPT ![sync_playlist] = Append(@, videos[idx].video_id)]
  /\ requests' = Append(requests, Request("playlistItems.insert", idx, TRUE))
  /\ successful_adds' = successful_adds + 1
  /\ idx' = idx + 1
  /\ UNCHANGED <<dateVars, mainVars, searchVars, playlists, pc, failed_adds, skipped_duplicates, loopFrame>>

AddVideoFail ==
  /\ pc = "add_videos_loop"
  /\ idx <= Len(videos)
  /\ ~IsDuplicate(videos[idx].video_id)
  /\ requests' = Append(requests, Request("playlistItems.insert", idx, FALSE))
  /\ failed_adds' = failed_adds + 1
  /\ idx' = idx + 1
  /\ UNCHANGED <<dateVars, mainVars, searchVars, remoteVars, pc, successful_adds, skipped_duplicates, loopFrame>>

AddVideosReturn ==
  /\ pc = "add_videos_loop"
  /\ idx > Len(videos)
  /\ pc' = "add_done"
  /\ UNCHANGED <<dateVars, mainVars, searchVars, remoteVars, requests, idx, successful_adds, failed_adds,
                 skipped_duplicates, loopFrame>>

\* add_videos_to_playlist, lines 138-145: entry of the call
EnterLocals(pid, vs, skip, repeats) ==
  /\ sync_playlist' = pid
  /\ videos' = vs
  /\ skip_duplicates' = skip
  /\ successful_adds' = 0
  /\ failed_adds' = 0
  /\ skipped_duplicates' = 0
  /\ existing_video_ids' = {}
  /\ video_ids' = {}
  /\ next_page_token' = None
  /\ idx' = 1
  /\ prev_sync' = repeats

EnterAddVideos(pid, vs, skip, repeats) ==
  /\ EnterLocals(pid, vs, skip, repeats)
  /\ items_before' = items[pid]
  /\ pc' = IF skip THEN "get_playlist_video_ids" ELSE "add_videos_loop"

\* --------------------------------------------- callers of PlaylistManager
Video(v) == [video_id |-> v, published_at |-> v, source_channel |-> "CNBC"]

CallAddVideos ==
  /\ pc = "idle"
  /\ \E pid \in 1..Min(Len(playlists) + 1, MaxPlaylists),
        vs \in SeqsUpTo(VideoIds, MaxVideos), skip \in BOOLEAN :
       /\ Len(items[pid]) + Len(vs) <= MaxItems
       /\ EnterAddVideos(pid, [k \in 1..Len(vs) |-> Video(vs[k])], skip, NoRun)
  /\ caller' = "test"
  /\ requests' = <<>>
  /\ UNCHANGED <<dateVars, mainVars, searchVars, remoteVars, gocVars>>

\* the same call again, right after it returned
RepeatAddVideos ==
  /\ pc = "add_done"
  /\ caller = "test"
  /\ prev_sync = NoRun
  /\ Len(items[sync_playlist]) + Len(videos) <= MaxItems
  /\ EnterAddVideos(sync_playlist, videos, skip_duplicates,
                    <<successful_adds, failed_adds, skipped_duplicates>>)
  /\ requests' = <<>>
  /\ UNCHANGED <<dateVars, mainVars, searchVars, remoteVars, caller, gocVars>>

\* the call returned to its caller: its locals are gone
AddVideosDone ==
  /\ pc = "add_done"
  /\ caller = "test"
  /\ pc' = "idle"
  /\ requests' = <<>>
  /\ EnterLocals(1, <<>>, TRUE, NoRun)
  /\ items_before' = <<>>
  /\ UNCHANGED <<dateVars, mainVars, searchVars, remoteVars, caller, gocVars>>

\* --------------------------------------- callers of get_or_create_playlist
CallGetOrCreate ==
  /\ pc = "idle"
  /\ Len(playlists) < MaxPlaylists
  /\ \E t \in Titles : title' = t
  /\ pc' = "find_existing_playlist"
  /\ caller' = "test"
  /\ requests' = <<>>
  /\ UNCHANGED <<dateVars, mainVars, searchVars, remoteVars, find_result, playlist_id, playlist_url, is_existing, prev_goc, syncVars>>

\* the call returned (playlist_id, playlist_url, is_existing) to its caller
GetOrCreateDone ==
  /\ pc = "goc_done"
  /\ caller = "test"
  /\ prev_goc' = [called |-> TRUE, title |-> title, playlist_id |-> playlist_id]
  /\ find_result' = None
  /\ playlist_id' = None
  /\ playlist_url' = None
  /\ is_existing' = FALSE
  /\ requests' = <<>>
  /\ pc' = "idle"
  /\ UNCHANGED <<dateVars, mainVars, searchVars, remoteVars, caller, title, syncVars>>

InitLocals ==
  /\ caller = "test"
  /\ requests = <<>>
  /\ title = "news_20240101"
  /\ find_result = None
  /\ playlist_id = None
  /\ playlist_url = None
  /\ is_existing = FALSE
  /\ prev_goc = NoCall
  /\ sync_playlist = 1
  /\ videos = <<>>
  /\ skip_duplicates = TRUE
  /\ existing_video_ids = {}
  /\ video_ids = {}
  /\ next_page_token = None
  /\ idx = 1
  /\ successful_adds = 0
  /\ failed_adds = 0
  /\ skipped_duplicates = 0
  /\ items_before = <<>>
  /\ prev_sync = NoRun
  /\ channel_configs = <<>>
  /\ max_results = MaxResultsPage
  /\ ci = 1
  /\ channel_id = None
  /\ channel_videos = <<>>
  /\ page_token = None
  /\ all_videos = <<>>
  /\ chan_status = <<>>
  /\ args_date = NoDate
  /\ args_category = "news"
  /\ target_date = Today
  /\ exit_status = Running
  /\ outcome = ""
  /\ runs = 0
  /\ self_target_date = None
  /\ self_hours_back = None
  /\ start_time = None
  /\ end_time = None

NoPlatform == [c \in ChannelIds |-> <<>>]

\* noon UTC of day 2, the local zone is UTC
FixedClock ==
  /\ now = 2 * 24 * TicksPerHour + 12 * TicksPerHour
  /\ utc_offset = 0

\* an account that holds at most one playlist, of any title
InitGoc ==
  /\ playlists \in {[k \in 1..Len(ts) |-> [id |-> k, title |-> ts[k]]] :
                      ts \in SeqsUpTo(Titles, 1)}
  /\ items = [p \in PlaylistIds |-> <<>>]
  /\ platform = NoPlatform
  /\ pc = "idle"
  /\ FixedClock
  /\ InitLocals

GetOrCreateSteps ==
  \/ FindExistingPlaylist
  \/ GetOrCreateFound
  \/ GetOrCreateNotFound
  \/ CreatePlaylistOk
  \/ CreatePlaylistFail

NextGoc ==
  \/ CallGetOrCreate
  \/ GetOrCreateSteps
  \/ GetOrCreateDone

\* calls of get_or_create_playlist on one account, any titles, any failures
GocSpec == InitGoc /\ [][NextGoc]_vars

InitSync ==
  /\ playlists = <<[id |-> 1, title |-> "news_20240101"]>>
  /\ items \in {[p \in PlaylistIds |-> IF p = 1 THEN s ELSE <<>>] :
                  s \in {t \in SeqsUpTo(VideoIds, 2) : NoRepeat(t)}}
  /\ platform = NoPlatform
  /\ pc = "idle"
  /\ FixedClock
  /\ InitLocals

AddVideosSteps ==
  \/ GetPlaylistVideoIdsPage
  \/ GetPlaylistVideoIdsFail
  \/ SkipDuplicate
  \/ AddVideoOk
  \/ AddVideoFail
  \/ AddVideosReturn

NextSync ==
  \/ CallAddVideos
  \/ AddVideosSteps
  \/ RepeatAddVideos
  \/ AddVideosDone

\* calls of add_videos_to_playlist on one account, any inputs, any failures
Spec == InitSync /\ [][NextSync]_vars

\* ---------------------------------------------------------- VideoSearcher
\* search().list(channelId, type='video', maxResults=n, pageToken=token): the
\* page that starts after `token` videos, and the token of the next page
SearchPage(cid, n, token) ==
  LET all == platform[cid]
      m == Min(Min(n, SearchPageCap), Len(all) - token)
  IN  [items |-> SubSeq(all, token + 1, token + m),
       nextPageToken |-> IF token + m < Len(all) THEN token + m ELSE None]

\* a request that always asks for a full page
PageSize_FullPage == MaxResultsPage

\* line 49
PageSize == Min(MaxResultsPage, max_results - Len(channel_videos))

\* '...'
Ellipsis == <<".", ".", ".">>

\* a cut that also shortens a description of exactly the limit
StoredDescription_AtLimit(description) ==
  IF Len(description) >= DescriptionLimit
  THEN SubSeq(description, 1, DescriptionLimit) \o Ellipsis
  ELSE description

\* line 62: description[:100] + '...' if len(description) > 100 else description
StoredDescription(description) ==
  IF Len(description) > DescriptionLimit
  THEN SubSeq(description, 1, DescriptionLimit) \o Ellipsis
  ELSE description

\* lines 57-63
VideoData(item) == [video_id |-> item.video_id,
                    published_at |-> item.published_at,
                    channel_title |-> item.channel_title,
                    description |-> StoredDescription(item.description)]

\* a tagging that takes the platform's channel title for the name
Tagged_ChannelTitle(vs, name) ==
  [k \in 1..Len(vs) |->
     [video_id |-> vs[k].video_id, published_at |-> vs[k].published_at,
      channel_title |-> vs[k].channel_title,
      description |-> vs[k].description,
      source_channel |-> vs[k].channel_title]]

\* lines 97-98
Tagged(vs, name) ==
  [k \in 1..Len(vs) |->
     [video_id |-> vs[k].video_id, published_at |-> vs[k].published_at,
      channel_title |-> vs[k].channel_title,
      description |-> vs[k].description, source_channel |-> name]]

RECURSIVE InsertByPublishedAt(_, _)
\* v put into the sorted s behind every record that is not later than it
InsertByPublishedAt(s, v) ==
  IF s = <<>> THEN <<v>>
  ELSE IF s[Len(s)].published_at <= v.published_at THEN Append(s, v)
  ELSE Append(InsertByPublishedAt(SubSeq(s, 1, Len(s) - 1), v), s[Len(s)])

RECURSIVE InsertBeforeEqual(_, _)
InsertBeforeEqual(s, v) ==
  IF s = <<>> THEN <<v>>
  ELSE IF s[Len(s)].published_at < v.published_at THEN Append(s, v)
  ELSE Append(InsertBeforeEqual(SubSeq(s, 1, Len(s) - 1), v), s[Len(s)])

RECURSIVE SortByPublishedAt_Unstable(_)
\* a sort that puts a record before the equal ones already placed
SortByPublishedAt_Unstable(s) ==
  IF s = <<>> THEN <<>>
  ELSE InsertBeforeEqual(SortByPublishedAt_Unstable(SubSeq(s, 1, Len(s) - 1)),
                         s[Len(s)])

RECURSIVE SortByPublishedAt(_)
\* line 103: list.sort(key=published_at), a stable ascending sort
SortByPublishedAt(s) ==
  IF s = <<>> THEN <<>>
  ELSE InsertByPublishedAt(SortByPublishedAt(SubSeq(s, 1, Len(s) - 1)), s[Len(s)])

searchFrame == <<platform, channel_configs, max_results>>
pmVars == <<remoteVars, caller, gocVars, syncVars>>

EnterSearchChannelVideos ==
  /\ channel_videos' = <<>>
  /\ page_token' = None
  /\ pc' = "search_channel_videos"

\* lines 82-83: the descriptor carries a channel id
SmcChannelWithId ==
  /\ pc = "search_multiple_channels"
  /\ ci <= Len(channel_configs)
  /\ channel_configs[ci].channel_id # None
  /\ channel_id' = channel_configs[ci].channel_id
  /\ chan_status' = Append(chan_status,
                           [failed |-> FALSE, channel_id |-> channel_configs[ci].channel_id])
  /\ EnterSearchChannelVideos
  /\ UNCHANGED <<dateVars, mainVars, pmVars, searchFrame, requests, ci, all_videos>>

HandleRequest(ok) ==
  Request("search.list", [ci |-> ci, type |-> "channel", maxResults |-> 1,
                          pageToken |-> None], ok)

\* get_channel_id_from_handle found a channel: search it
GetChannelIdFound ==
  /\ pc = "search_multiple_channels"
  /\ ci <= Len(channel_configs)
  /\ channel_configs[ci].channel_id = None
  /\ \E c \in ChannelIds :
       /\ channel_id' = c
       /\ chan_status' = Append(chan_status, [failed |-> FALSE, channel_id |-> c])
  /\ requests' = Append(requests, HandleRequest(TRUE))
  /\ EnterSearchChannelVideos
  /\ UNCHANGED <<dateVars, mainVars, pmVars, searchFrame, ci, all_videos>>

\* get_channel_id_from_handle: no item for the handle, lines 27-29 and 86-87
GetChannelIdNotFound ==
  /\ pc = "search_multiple_channels"
  /\ ci <= Len(channel_configs)
  /\ channel_configs[ci].channel_id = None
  /\ channel_id' = None
  /\ chan_status' = Append(chan_status, [failed |-> FALSE, channel_id |-> None])
  /\ requests' = Append(requests, HandleRequest(TRUE))
  /\ ci' = ci + 1
  /\ UNCHANGED <<dateVars, mainVars, pmVars, searchFrame, pc, channel_videos, page_token, all_videos>>

\* get_channel_id_from_handle: HttpError, lines 31-33 and 86-87
GetChannelIdFail ==
  /\ pc = "search_multiple_channels"
  /\ ci <= Len(channel_configs)
  /\ channel_configs[ci].channel_id = None
  /\ channel_id' = None
  /\ chan_status' = Append(chan_status, [failed |-> TRUE, channel_id |-> None])
  /\ requests' = Append(requests, HandleRequest(FALSE))
  /\ ci' = ci + 1
  /\ UNCHANGED <<dateVars, mainVars, pmVars, searchFrame, pc, channel_videos, page_token, all_videos>>

VideoRequest(ok) ==
  Request("search.list", [ci |-> ci, type |-> "video", maxResults |-> PageSize,
                          pageToken |-> page_token], ok)

\* search_channel_videos: one pass of the while loop, lines 41-68
SearchChannelVideosPage ==
  /\ pc = "search_channel_videos"
  /\ Len(channel_videos) < max_results
  /\ LET page == SearchPage(channel_id, PageSize, page_token)
     IN  /\ channel_videos' = channel_videos \o
                                [k \in 1..Len(page.items) |-> VideoData(page.items[k])]
         /\ page_token' = page.nextPageToken
         /\ pc' = IF page.nextPageToken = None THEN "smc_extend"
                  ELSE "search_channel_videos"
  /\ requests' = Append(requests, VideoRequest(TRUE))
  /\ UNCHANGED <<dateVars, mainVars, pmVars, searchFrame, ci, channel_id, all_videos, chan_status>>

\* search_channel_videos: the while condition ends the loop, lines 41 and 70-71
SearchChannelVideosFull ==
  /\ pc = "search_channel_videos"
  /\ Len(channel_videos) >= max_results
  /\ pc' = "smc_extend"
  /\ UNCHANGED <<dateVars, mainVars, pmVars, searchVars, requests>>

\* a search that gives up on every channel after one HttpError
SearchChannelVideosFail_Abort ==
  /\ pc = "search_channel_videos"
  /\ Len(channel_videos) < max_results
  /\ requests' = Append(requests, VideoRequest(FALSE))
  /\ channel_videos' = <<>>
  /\ chan_status' = [chan_status EXCEPT ![ci].failed = TRUE]
  /\ ci' = Len(channel_configs)
  /\ pc' = "smc_extend"
  /\ UNCHANGED <<dateVars, mainVars, pmVars, searchFrame, channel_id, page_token, all_videos>>

\* search_channel_videos: HttpError on a page, lines 73-75
SearchChannelVideosFail ==
  /\ pc = "search_channel_videos"
  /\ Len(channel_videos) < max_results
  /\ requests' = Append(requests, VideoRequest(FALSE))
  /\ channel_videos' = <<>>
  /\ chan_status' = [chan_status EXCEPT ![ci].failed = TRUE]
  /\ pc' = "smc_extend"
  /\ UNCHANGED <<dateVars, mainVars, pmVars, searchFrame, ci, channel_id, page_token, all_videos>>

\* lines 96-100: tag the channel's videos and add them to all_videos
SmcExtend ==
  /\ pc = "smc_extend"
  /\ all_videos' = all_videos \o Tagged(channel_videos, channel_configs[ci].name)
  /\ ci' = ci + 1
  /\ pc' = "search_multiple_channels"
  /\ UNCHANGED <<dateVars, mainVars, pmVars, searchFrame, requests, channel_id, channel_videos,
                 page_token, chan_status>>

\* lines 102-106: sort and return
SmcSortReturn ==
  /\ pc = "search_multiple_channels"
  /\ ci > Len(channel_configs)
  /\ all_videos' = SortByPublishedAt(all_videos)
  /\ pc' = "search_done"
  /\ UNCHANGED <<dateVars, mainVars, pmVars, searchFrame, requests, ci, channel_id, channel_videos,
                 page_token, chan_status>>

SearchLocals(configs, n) ==
  /\ channel_configs' = configs
  /\ max_results' = n
  /\ all_videos' = <<>>
  /\ ci' = 1
  /\ channel_id' = None
  /\ channel_videos' = <<>>
  /\ page_token' = None
  /\ chan_status' = <<>>

\* search_multiple_channels, line 79: entry of the call
EnterSearch(configs, n) ==
  /\ SearchLocals(configs, n)
  /\ pc' = "search_multiple_channels"

\* ------------------------------------------------ callers of VideoSearcher
\* descriptors with a channel id, and one that is resolved by its handle (to
\* whatever channel the platform finds for it)
Descriptors ==
  {[name |-> "CNBC", channel_id |-> 1, handle |-> "@CNBCtelevision"],
   [name |-> "Bloomberg", channel_id |-> 2, handle |-> "@markets"],
   [name |-> "Bloomberg", channel_id |-> None, handle |-> "@markets"]}

CallSearch ==
  /\ pc = "idle"
  /\ \E configs \in SeqsUpTo(Descriptors, MaxChannels),
        n \in (1..MaxPerChannel) \cup {MaxResultsPerChannel} :
       EnterSearch(configs, n)
  /\ caller' = "test"
  /\ requests' = <<>>
  /\ UNCHANGED <<dateVars, mainVars, remoteVars, gocVars, syncVars, platform>>

\* the call returned all_videos to its caller
SearchDone ==
  /\ pc = "search_done"
  /\ caller = "test"
  /\ SearchLocals(<<>>, MaxResultsPage)
  /\ pc' = "idle"
  /\ requests' = <<>>
  /\ UNCHANGED <<dateVars, mainVars, pmVars, platform>>

ChannelTitle(c) == IF c = 1 THEN "CNBC Television" ELSE "CNBC"

VideoIdOf(c, k) == 10 * c + k

\* a description of a few characters
ShortDescription == <<"n", "e", "w", "s">>

ChannelVideos(c, ts) ==
  [k \in 1..Len(ts) |-> [video_id |-> VideoIdOf(c, k), published_at |-> ts[k],
                         channel_title |-> ChannelTitle(c),
                         description |-> ShortDescription]]

\* order='date': the platform lists a channel's videos newest first
NewestFirst(ts) == \A k \in 1..(Len(ts) - 1) : ts[k] >= ts[k + 1]

\* channel 1 holds up to MaxChannelVideos videos, channel 2 at most one
InitSearch ==
  /\ playlists = <<>>
  /\ items = [p \in PlaylistIds |-> <<>>]
  /\ platform \in {[c \in ChannelIds |-> IF c = 1 THEN ChannelVideos(1, a)
                                                   ELSE ChannelVideos(2, b)] :
                     a \in {ts \in SeqsUpTo(Times, MaxChannelVideos) : NewestFirst(ts)},
                     b \in SeqsUpTo(Times, 1)}
  /\ pc = "idle"
  /\ FixedClock
  /\ InitLocals

SearchSteps ==
  \/ SmcChannelWithId
  \/ GetChannelIdFound
  \/ GetChannelIdNotFound
  \/ GetChannelIdFail
  \/ SearchChannelVideosPage
  \/ SearchChannelVideosFull
  \/ SearchChannelVideosFail
  \/ SmcExtend
  \/ SmcSortReturn

NextSearch ==
  \/ CallSearch
  \/ SearchSteps
  \/ SearchDone

\* calls of search_multiple_channels on one platform, any channel lists
SearchSpec == InitSearch /\ [][NextSearch]_vars

\* ------------------------------------------- descriptions of any length
Alphabet == <<"a", "b", "c", ".", " ">>

\* a text of n characters that differ from place to place
RawDescription(n, shift) ==
  [k \in 1..n |-> Alphabet[((k + shift) % Len(Alphabet)) + 1]]

\* channel 1 holds one video, its description has any length up to MaxDescLen
InitDesc ==
  /\ \E n \in 0..MaxDescLen, shift \in {0, 1} :
       platform = [c \in ChannelIds |->
                     IF c = 1
                     THEN <<[video_id |-> VideoIdOf(1, 1), published_at |-> 1,
                             channel_title |-> ChannelTitle(1),
                             description |-> RawDescription(n, shift)]>>
                     ELSE <<>>]
  /\ playlists = <<>>
  /\ items = [p \in PlaylistIds |-> <<>>]
  /\ pc = "idle"
  /\ FixedClock
  /\ InitLocals

\* the search main makes for category news
CallSearchNews ==
  /\ pc = "idle"
  /\ EnterSearch(<<[name |-> "CNBC", channel_id |-> 1, handle |-> "@CNBCtelevision"]>>,
                 MaxResultsPerChannel)
  /\ caller' = "test"
  /\ requests' = <<>>
  /\ UNCHANGED <<dateVars, mainVars, remoteVars, gocVars, syncVars, platform>>

NextDesc ==
  \/ CallSearchNews
  \/ SmcChannelWithId
  \/ SearchChannelVideosPage
  \/ SearchChannelVideosFail
  \/ SmcExtend
  \/ SmcSortReturn
  \/ SearchDone

\* searches of one channel whose video has a description of any length
DescSpec == InitDesc /\ [][NextDesc]_vars

\* -------------------------------------------------------------- DateConfig
\* Instants are counted in ticks from midnight UTC of day 0, days are numbered.
TicksPerDay == 24 * TicksPerHour

Days == 1..MaxDay

\* hours_back values of the categories, and two around them
HoursBack == {1, 7, 24, 48}

\* date.today(): the calendar date of the local zone at instant t
LocalDate(t, off) == (t + off * TicksPerHour) \div TicksPerDay

\* datetime.combine(d, datetime.min.time()).replace(tzinfo=timezone.utc)
StartOfDay(d) == d * TicksPerDay

\* datetime.combine(d, datetime.max.time()).replace(tzinfo=timezone.utc):
\* the last instant of the day, 23:59:59.999999
EndOfDay(d) == (d + 1) * TicksPerDay - 1

\* a window that always ends at the current instant
EndTime_AlwaysNow(d, t, off) == t

\* get_date_range, lines 32-36
EndTime(d, t, off) == IF d # LocalDate(t, off) THEN EndOfDay(d) ELSE t

\* get_date_range, lines 39-43: `if self.hours_back` is false for None and 0
StartTime(d, hours, end) ==
  IF hours # None THEN end - hours * TicksPerHour ELSE StartOfDay(d)

\* DateConfig(target_date, hours_back), lines 26-28
CallGetDateRange ==
  /\ pc = "idle"
  /\ \E d \in Days \cup {None} :
       self_target_date' = IF d # None THEN d ELSE LocalDate(now, utc_offset)
  /\ \E h \in HoursBack \cup {None} : self_hours_back' = h
  /\ start_time' = None
  /\ end_time' = None
  /\ pc' = "get_date_range"
  /\ UNCHANGED <<now, utc_offset, remoteVars, caller, requests, gocVars,
                 syncVars, searchVars, mainVars>>

\* get_date_range, lines 30-45
GetDateRange ==
  /\ pc = "get_date_range"
  /\ end_time' = EndTime(self_target_date, now, utc_offset)
  /\ start_time' = StartTime(self_target_date, self_hours_back,
                             EndTime(self_target_date, now, utc_offset))
  /\ pc' = "date_done"
  /\ UNCHANGED <<now, utc_offset, self_target_date, self_hours_back,
                 remoteVars, caller, requests, gocVars, syncVars, searchVars,
                 mainVars>>

\* the window was returned to the caller
DateDone ==
  /\ pc = "date_done"
  /\ self_target_date' = None
  /\ self_hours_back' = None
  /\ start_time' = None
  /\ end_time' = None
  /\ pc' = "idle"
  /\ UNCHANGED <<now, utc_offset, remoteVars, caller, requests, gocVars,
                 syncVars, searchVars, mainVars>>

\* any instant of day 2 (UTC), any local zone
InitDate ==
  /\ now \in (2 * TicksPerDay)..(3 * TicksPerDay - 1)
  /\ utc_offset \in (0 - MaxOffset)..MaxOffset
  /\ playlists = <<>>
  /\ items = [p \in PlaylistIds |-> <<>>]
  /\ platform = NoPlatform
  /\ pc = "idle"
  /\ InitLocals

NextDate ==
  \/ CallGetDateRange
  \/ GetDateRange
  \/ DateDone

\* calls of DateConfig.get_date_range at any instant, in any zone
DateSpec == InitDate /\ [][NextDate]_vars

\* -------------------------------------------------------------------- main
\* config.py CHANNELS, and a registry entry that has a handle but no id
CHANNELS ==
  [n \in {"CNBC", "Bloomberg"} |->
     IF n = "CNBC"
     THEN [name |-> "CNBC", channel_id |-> 1, handle |-> "@CNBCtelevision"]
     ELSE [name |-> "Bloomberg", channel_id |-> None, handle |-> "@markets"]]

\* config.py CATEGORIES ("news", "dev"), and entries that reach the other
\* checks of main: one without configuration, one naming unknown channels
CATEGORIES ==
  [c \in {"news", "dev", "markets", "empty", "stale"} |->
     CASE c = "news" -> [channels |-> <<"CNBC">>, hours_back |-> 7]
       [] c = "dev" -> [channels |-> <<>>, hours_back |-> 24]
       [] c = "markets" -> [channels |-> <<"Reuters", "Bloomberg", "CNBC">>,
                            hours_back |-> None]
       [] c = "empty" -> [channels |-> <<>>, hours_back |-> None, unset |-> TRUE]
       [] c = "stale" -> [channels |-> <<"Reuters">>, hours_back |-> 24]]

\* `if not category_config`: the entry is an empty dict
IsEmptyConfig(cfg) == "unset" \in DOMAIN cfg

\* lines 81-84
ChannelConfigs(names) ==
  LET known == SelectSeq(names, LAMBDA n : n \in DOMAIN CHANNELS)
  IN  [k \in 1..Len(known) |-> CHANNELS[known[k]]]

\* datetime.strptime(args.date, '%Y-%m-%d') accepts the string
IsDate(d) == d \in {"2024-01-01", "2024-01-02"}

\* target_date.strftime('%Y%m%d')
DateCompact(d) == IF d = "2024-01-01" THEN "20240101" ELSE "20240102"

\* the day number of the date main works with; Today is day 2
DayOf(d) == IF d = Today THEN 2 ELSE 3

\* generate_playlist_title with PLAYLIST_CONFIG['name_template']
GeneratePlaylistTitle(category, d) == category \o "_" \o DateCompact(d)

Exit(status, how) ==
  /\ exit_status' = status
  /\ outcome' = how
  /\ pc' = "exit"

callVars == <<gocVars, syncVars, channel_configs, max_results, ci, channel_id,
              channel_videos, page_token, all_videos, chan_status>>

\* parse_arguments: argparse rejects a category that is no key of CATEGORIES
ParseArgumentsReject ==
  /\ pc = "main"
  /\ args_category \notin DOMAIN CATEGORIES
  /\ Exit(2, "unknown_category")
  /\ UNCHANGED <<dateVars, remoteVars, platform, caller, requests, callVars, args_date,
                 args_category, target_date, runs>>

\* lines 58-65: a date that does not parse
ParseDateFail ==
  /\ pc = "main"
  /\ args_category \in DOMAIN CATEGORIES
  /\ args_date # NoDate
  /\ ~IsDate(args_date)
  /\ Exit(1, "bad_date")
  /\ UNCHANGED <<dateVars, remoteVars, platform, caller, requests, callVars, args_date,
                 args_category, target_date, runs>>

\* lines 58-62: target_date is today or the date given
ParseDateOk ==
  /\ pc = "main"
  /\ args_category \in DOMAIN CATEGORIES
  /\ args_date = NoDate \/ IsDate(args_date)
  /\ target_date' = IF args_date = NoDate THEN Today ELSE args_date
  /\ pc' = "category_config"
  /\ UNCHANGED <<dateVars, remoteVars, platform, caller, requests, callVars, args_date,
                 args_category, exit_status, outcome, runs>>

\* lines 68-71
NoCategoryConfig ==
  /\ pc = "category_config"
  /\ IsEmptyConfig(CATEGORIES[args_category])
  /\ Exit(1, "no_category_config")
  /\ UNCHANGED <<dateVars, remoteVars, platform, caller, requests, callVars, args_date,
                 args_category, target_date, runs>>

\* a main that looks at the channel list only after it has authenticated
NoChannelsConfigured_AfterAuth ==
  /\ pc = "category_config"
  /\ ~IsEmptyConfig(CATEGORIES[args_category])
  /\ CATEGORIES[args_category].channels = <<>>
  /\ requests' = Append(requests, Request("authenticate", None, TRUE))
  /\ Exit(1, "no_channels")
  /\ UNCHANGED <<dateVars, remoteVars, platform, caller, callVars, args_date,
                 args_category, target_date, runs>>

\* lines 73-78
NoChannelsConfigured ==
  /\ pc = "category_config"
  /\ ~IsEmptyConfig(CATEGORIES[args_category])
  /\ CATEGORIES[args_category].channels = <<>>
  /\ Exit(1, "no_channels")
  /\ UNCHANGED <<dateVars, remoteVars, platform, caller, requests, callVars, args_date,
                 args_category, target_date, runs>>

\* lines 81-93
NoValidChannels ==
  /\ pc = "category_config"
  /\ ~IsEmptyConfig(CATEGORIES[args_category])
  /\ CATEGORIES[args_category].channels # <<>>
  /\ ChannelConfigs(CATEGORIES[args_category].channels) = <<>>
  /\ Exit(1, "no_valid_channels")
  /\ UNCHANGED <<dateVars, remoteVars, platform, caller, requests, callVars, args_date,
                 args_category, target_date, runs>>

\* lines 81-105: the channel list is there
ChannelsOk ==
  /\ pc = "category_config"
  /\ ~IsEmptyConfig(CATEGORIES[args_category])
  /\ ChannelConfigs(CATEGORIES[args_category].channels) # <<>>
  /\ channel_configs' = ChannelConfigs(CATEGORIES[args_category].channels)
  /\ self_target_date' = DayOf(target_date)
  /\ self_hours_back' = CATEGORIES[args_category].hours_back
  /\ end_time' = EndTime(DayOf(target_date), now, utc_offset)
  /\ start_time' = StartTime(DayOf(target_date), CATEGORIES[args_category].hours_back,
                             EndTime(DayOf(target_date), now, utc_offset))
  /\ pc' = "authenticate"
  /\ UNCHANGED <<now, utc_offset, remoteVars, platform, caller, requests, gocVars, syncVars,
                 max_results, ci, channel_id, channel_videos, page_token,
                 all_videos, chan_status, mainVars>>

\* lines 109-122: the client is there, search_multiple_channels is called
AuthenticateOk ==
  /\ pc = "authenticate"
  /\ requests' = Append(requests, Request("authenticate", None, TRUE))
  /\ EnterSearch(channel_configs, MaxResultsPerChannel)
  /\ UNCHANGED <<dateVars, remoteVars, platform, caller, gocVars, syncVars, mainVars>>

\* line 109 raises, lines 206-209 report it
AuthenticateFail ==
  /\ pc = "authenticate"
  /\ requests' = Append(requests, Request("authenticate", None, FALSE))
  /\ Exit(1, "error")
  /\ UNCHANGED <<dateVars, remoteVars, platform, caller, callVars, args_date,
                 args_category, target_date, runs>>

\* lines 124-127
MainNoVideos ==
  /\ pc = "search_done"
  /\ caller = "main"
  /\ all_videos = <<>>
  /\ Exit(0, "no_videos")
  /\ UNCHANGED <<dateVars, remoteVars, platform, caller, requests, callVars, args_date,
                 args_category, target_date, runs>>

\* a main that goes on to the playlist whatever the search returned
MainGetOrCreate_Always ==
  /\ pc = "search_done"
  /\ caller = "main"
  /\ title' = GeneratePlaylistTitle(args_category, target_date)
  /\ pc' = "find_existing_playlist"
  /\ UNCHANGED <<dateVars, remoteVars, searchVars, caller, requests, find_result,
                 playlist_id, playlist_url, is_existing, prev_goc, syncVars, mainVars>>

\* lines 129-157: title made, get_or_create_playlist is called
MainGetOrCreate ==
  /\ pc = "search_done"
  /\ caller = "main"
  /\ all_videos # <<>>
  /\ title' = GeneratePlaylistTitle(args_category, target_date)
  /\ pc' = "find_existing_playlist"
  /\ UNCHANGED <<dateVars, remoteVars, searchVars, caller, requests, find_result,
                 playlist_id, playlist_url, is_existing, prev_goc, syncVars, mainVars>>

\* lines 159-162: `return` without an exit status
MainNoPlaylist ==
  /\ pc = "goc_done"
  /\ caller = "main"
  /\ playlist_id = None
  /\ Exit(0, "no_playlist")
  /\ UNCHANGED <<dateVars, remoteVars, platform, caller, requests, callVars, args_date,
                 args_category, target_date, runs>>

\* lines 164-173: add_videos_to_playlist(playlist_id, videos, skip_duplicates=True)
MainAddVideos ==
  /\ pc = "goc_done"
  /\ caller = "main"
  /\ playlist_id # None
  /\ EnterAddVideos(playlist_id, all_videos, TRUE, NoRun)
  /\ UNCHANGED <<dateVars, remoteVars, searchVars, caller, requests, gocVars, mainVars>>

\* lines 175-204: summary, the function ends
MainSummary ==
  /\ pc = "add_done"
  /\ caller = "main"
  /\ Exit(0, "synchronized")
  /\ UNCHANGED <<dateVars, remoteVars, platform, caller, requests, callVars, args_date,
                 args_category, target_date, runs>>

\* the process is started, with some arguments
StartMain ==
  /\ pc \in {"idle", "exit"}
  /\ runs < MaxRuns
  /\ Len(playlists) < MaxPlaylists
  /\ runs' = runs + 1
  /\ \E d \in {NoDate, "2024-01-02", "01/02/2024"} : args_date' = d
  /\ \E c \in {"news", "dev", "markets", "empty", "stale", "sports"} :
       args_category' = c
  /\ target_date' = Today
  /\ exit_status' = Running
  /\ outcome' = ""
  /\ caller' = "main"
  /\ requests' = <<>>
  /\ SearchLocals(<<>>, MaxResultsPerChannel)
  /\ EnterLocals(1, <<>>, TRUE, NoRun)
  /\ items_before' = <<>>
  /\ title' = ""
  /\ find_result' = None
  /\ playlist_id' = None
  /\ playlist_url' = None
  /\ is_existing' = FALSE
  /\ self_target_date' = None
  /\ self_hours_back' = None
  /\ start_time' = None
  /\ end_time' = None
  /\ pc' = "main"
  /\ UNCHANGED <<now, utc_offset, remoteVars, platform, prev_goc>>

\* a platform with up to two videos of channel 1 and one of channel 2, and an
\* account without the playlist, or with it and one or no member
InitMain ==
  /\ \E a \in {<<>>, <<2>>, <<2, 1>>}, b \in {<<>>, <<1>>} :
       platform = [c \in ChannelIds |-> IF c = 1 THEN ChannelVideos(1, a)
                                                 ELSE ChannelVideos(2, b)]
  /\ \/ /\ playlists = <<>>
        /\ items = [p \in PlaylistIds |-> <<>>]
     \/ /\ playlists = <<[id |-> 1, title |-> "news_20240101"]>>
        /\ items \in {[p \in PlaylistIds |-> IF p = 1 THEN s ELSE <<>>] :
                        s \in {<<>>, <<VideoIdOf(1, 1)>>}}
  /\ pc = "idle"
  /\ FixedClock
  /\ InitLocals

MainSteps ==
  \/ ParseArgumentsReject
  \/ ParseDateFail
  \/ ParseDateOk
  \/ NoCategoryConfig
  \/ NoChannelsConfigured
  \/ NoValidChannels
  \/ ChannelsOk
  \/ AuthenticateOk
  \/ AuthenticateFail
  \/ MainNoVideos
  \/ MainGetOrCreate
  \/ MainNoPlaylist
  \/ MainAddVideos
  \/ MainSummary

\* main asks for 50 videos a channel and no channel holds that many here, so
\* the while condition of search_channel_videos never ends its loop
MainSearchSteps ==
  \/ SmcChannelWithId
  \/ GetChannelIdFound
  \/ GetChannelIdNotFound
  \/ GetChannelIdFail
  \/ SearchChannelVideosPage
  \/ SearchChannelVideosFail
  \/ SmcExtend
  \/ SmcSortReturn

NextMain ==
  \/ StartMain
  \/ MainSteps
  \/ MainSearchSteps
  \/ GetOrCreateSteps
  \/ AddVideosSteps

\* runs of main on one account and one platform
MainSpec == InitMain /\ [][NextMain]_vars

\* ------------------------------------ runs of main, whatever the pages hold
\* the token the platform puts on the page it answers a request of `token`
\* with: another one each time
FreshToken(token) == (token % MaxToken) + 1

\* the log with request q, written once however often the request is repeated
Logged(q) ==
  IF \E r \in 1..Len(requests) : requests[r] = q THEN requests
  ELSE Append(requests, q)

\* search_channel_videos: one pass of the while loop, lines 41-68, on a page
\* without items that carries a nextPageToken: nothing is appended, the token
\* is kept for the next request and line 67 does not break
SearchChannelVideosEmptyPage ==
  /\ pc = "search_channel_videos"
  /\ Len(channel_videos) < max_results
  /\ page_token' = FreshToken(page_token)
  /\ requests' = Logged(VideoRequest(TRUE))
  /\ UNCHANGED <<dateVars, mainVars, pmVars, searchFrame, pc, ci, channel_id,
                 channel_videos, all_videos, chan_status>>

\* get_playlist_video_ids: one pass of the while True loop, lines 45-60, on a
\* page of members that carries a nextPageToken: line 59 does not break
GetPlaylistVideoIdsTokenPage ==
  /\ pc = "get_playlist_video_ids"
  /\ PlaylistExists(sync_playlist)
  /\ video_ids' = video_ids \cup Range(ItemsPage(sync_playlist, next_page_token).ids)
  /\ next_page_token' = FreshToken(next_page_token)
  /\ requests' = Logged(Request("playlistItems.list", next_page_token, TRUE))
  /\ UNCHANGED <<dateVars, mainVars, searchVars, remoteVars, caller, gocVars, pc,
                 sync_playlist, videos, skip_duplicates, existing_video_ids,
                 idx, successful_adds, failed_adds, skipped_duplicates,
                 items_before, prev_sync>>

\* a platform with two videos of channel 1 and one of channel 2, and an account
\* with the playlist of the day and one member
InitLive ==
  /\ platform = [c \in ChannelIds |-> IF c = 1 THEN ChannelVideos(1, <<2, 1>>)
                                              ELSE ChannelVideos(2, <<1>>)]
  /\ playlists = <<[id |-> 1, title |-> "news_20240101"]>>
  /\ items = [p \in PlaylistIds |-> IF p = 1 THEN <<VideoIdOf(1, 1)>> ELSE <<>>]
  /\ pc = "idle"
  /\ FixedClock
  /\ InitLocals

\* the steps of a started run: the interpreter executes the one thread of the
\* program until main returns or the process exits
LiveSteps ==
  \/ MainSteps
  \/ MainSearchSteps
  \/ GetOrCreateSteps
  \/ AddVideosSteps
  \/ SearchChannelVideosEmptyPage
  \/ GetPlaylistVideoIdsTokenPage

NextLive ==
  \/ StartMain
  \/ LiveSteps

\* runs of main that go on while a step is possible, on a platform that
\* answers a page request with any page
LiveSpec == InitLive /\ [][NextLive]_vars /\ WF_vars(LiveSteps)

\* ======================================================================
\* Properties of add_videos_to_playlist (specification Spec)
\* ======================================================================
InAddVideos == pc \in {"add_videos_loop", "add_done"}

\* insert requests the current call issued for input position k
Inserts(k) == {r \in 1..Len(requests) :
                 requests[r].op = "playlistItems.insert" /\ requests[r].arg = k}

InsertsWith(ok) == {r \in 1..Len(requests) :
                      requests[r].op = "playlistItems.insert" /\ requests[r].ok = ok}

Added(k) == \E r \in Inserts(k) : requests[r].ok

RECURSIVE AddedIds(_)
\* ids of the input positions 1..n whose insert succeeded, in input order
AddedIds(n) ==
  IF n = 0 THEN <<>>
  ELSE IF Added(n) THEN Append(AddedIds(n - 1), videos[n].video_id)
                   ELSE AddedIds(n - 1)

\* C1: when add_videos_to_playlist returns, added + failed + skipped equals
\* the length of the input list, for every playlist id, input, flag and
\* pattern of remote failures.
C1_CountersSum ==
  pc = "add_done" =>
    successful_adds + failed_adds + skipped_duplicates = Len(videos)

C1_Witness ==
  /\ pc = "add_done"
  /\ Len(videos) = 3
  /\ successful_adds = 1
  /\ failed_adds = 1
  /\ skipped_duplicates = 1

\* C2: a skip_duplicates call repeated at once with the same list, after a
\* first run in which no insert failed, adds nothing and skips every entry.
C2_RepeatAddsNothing ==
  (pc = "add_done" /\ skip_duplicates /\ prev_sync # NoRun /\ prev_sync[2] = 0) =>
    (successful_adds = 0 /\ skipped_duplicates = Len(videos))

\* C4: a skip_duplicates call that starts on a membership without repeated
\* ids never leaves a video id in it twice.
C4_NoRepeatedMember ==
  (InAddVideos /\ skip_duplicates /\ NoRepeat(items_before)) =>
    NoRepeat(items[sync_playlist])

\* C5: the ids one call appends are the inputs whose insert succeeded, in
\* input order, after the members that were there; on an empty playlist three
\* videos T1 < T2 < T3 without failures give (3, 0, 0) and [T1, T2, T3].
C5_AppendsInInputOrder ==
  pc = "add_done" =>
    /\ items[sync_playlist] = items_before \o AddedIds(Len(videos))
    /\ ( /\ items_before = <<>>
         /\ Len(videos) = 3
         /\ \A k \in 1..2 : videos[k].published_at < videos[k + 1].published_at
         /\ \A r \in 1..Len(requests) : requests[r].ok )
       => /\ <<successful_adds, failed_adds, skipped_duplicates>> = <<3, 0, 0>>
          /\ items[sync_playlist] = [k \in 1..3 |-> videos[k].video_id]

C5_Witness ==
  /\ pc = "add_done"
  /\ items_before = <<2>>
  /\ [k \in 1..Len(videos) |-> videos[k].video_id] = <<3, 2, 1>>
  /\ skip_duplicates
  /\ items[sync_playlist] = <<2, 3, 1>>

\* C6: every entry that is not skipped gets exactly one insert request, a
\* skipped entry none, whatever happened to the entries before it; a failed
\* insert changes the failed counter and nothing else.
C6_OneAttemptEach ==
  InAddVideos =>
    /\ \A k \in 1..Len(videos) :
         Cardinality(Inserts(k)) =
           IF k < idx /\ ~IsDuplicate(videos[k].video_id) THEN 1 ELSE 0
    /\ failed_adds = Cardinality(InsertsWith(FALSE))
    /\ successful_adds = Cardinality(InsertsWith(TRUE))
    /\ Len(items[sync_playlist]) = Len(items_before) + Cardinality(InsertsWith(TRUE))

C6_Witness ==
  /\ pc = "add_done"
  /\ Len(videos) = 3
  /\ \E r \in Inserts(1) : ~requests[r].ok
  /\ Added(2)
  /\ \E r \in Inserts(3) : ~requests[r].ok

\* ======================================================================
\* Properties of get_or_create_playlist (specification GocSpec)
\* ======================================================================
TitleCount(t) == Cardinality({k \in 1..Len(playlists) : playlists[k].title = t})

\* C3: a second get_or_create_playlist call with the title of a first call
\* that returned an id returns that id again with existed = True, and the
\* account holds at most one playlist with that title.
C3_SecondCallFindsIt ==
  (pc = "goc_done" /\ prev_goc.called /\ prev_goc.title = title
     /\ prev_goc.playlist_id # None) =>
    /\ playlist_id = prev_goc.playlist_id
    /\ is_existing
    /\ TitleCount(title) <= 1

\* ======================================================================
\* Properties of search_multiple_channels (specification SearchSpec)
\* ======================================================================
Take(s, n) == SubSeq(s, 1, Min(n, Len(s)))

\* what descriptor k contributes: nothing when a request for it failed or its
\* handle matched no channel, else the first max_results videos of its channel
ResultOf(k) ==
  IF chan_status[k].failed \/ chan_status[k].channel_id = None THEN <<>>
  ELSE LET found == Take(platform[chan_status[k].channel_id], max_results)
       IN  Tagged([j \in 1..Len(found) |-> VideoData(found[j])],
                  channel_configs[k].name)

RECURSIVE MergedResults(_)
\* the results of descriptors 1..n, one after the other
MergedResults(n) == IF n = 0 THEN <<>> ELSE MergedResults(n - 1) \o ResultOf(n)

PublishedAt(s, t) == SelectSeq(s, LAMBDA v : v.published_at = t)

\* C7: the list search_multiple_channels returns is sorted by published_at,
\* and its records with one publish instant are the merged per-channel results
\* with that instant, in the same order (hence a permutation, ties stable).
C7_StableSortOfMerged ==
  pc = "search_done" =>
    /\ \A k \in 1..(Len(all_videos) - 1) :
         all_videos[k].published_at <= all_videos[k + 1].published_at
    /\ Len(all_videos) = Len(MergedResults(Len(channel_configs)))
    /\ \A t \in Times :
         PublishedAt(all_videos, t) =
           PublishedAt(MergedResults(Len(channel_configs)), t)

\* two channels, equal instants across them, and an inversion to sort away
C7_Witness ==
  /\ pc = "search_done"
  /\ Len(all_videos) = 4
  /\ all_videos[1].source_channel = "Bloomberg"
  /\ all_videos[2].source_channel = "CNBC"
  /\ all_videos[2].published_at = 1
  /\ all_videos[3].source_channel = "Bloomberg"
  /\ all_videos[3].published_at = 2
  /\ all_videos[4].source_channel = "CNBC"
  /\ all_videos[2].video_id > all_videos[4].video_id

\* C8: an HttpError on a channel's lookup or search does not end the search:
\* every descriptor is visited and issues a request, and the list returned
\* holds exactly the records of the channels without a failed request.
C8_FailedChannelSkipped ==
  pc = "search_done" =>
    /\ Len(chan_status) = Len(channel_configs)
    /\ \A k \in 1..Len(channel_configs) :
         \E r \in 1..Len(requests) : requests[r].arg.ci = k
    /\ Len(all_videos) = Len(MergedResults(Len(channel_configs)))
    /\ \A v \in Range(all_videos) \cup Range(MergedResults(Len(channel_configs))) :
         Count(all_videos, v) = Count(MergedResults(Len(channel_configs)), v)

C8_Witness ==
  /\ pc = "search_done"
  /\ Len(channel_configs) = 2
  /\ chan_status[1].failed
  /\ channel_configs[1].channel_id # None
  /\ ~chan_status[2].failed
  /\ Len(all_videos) = 3

\* ======================================================================
\* Properties of main (specification MainSpec)
\* ======================================================================
FailedRequests(op) == {r \in 1..Len(requests) :
                         requests[r].op = op /\ ~requests[r].ok}

\* C9: once the playlist lookup or the playlist creation of a run has failed,
\* the run creates no playlist, lists no membership, inserts no member, and
\* it exits with a failure status.
C9_ResolutionErrorIsFatal ==
  \A r \in FailedRequests("playlists.list") \cup FailedRequests("playlists.insert") :
    /\ \A q \in (r + 1)..Len(requests) :
         /\ ~(requests[q].op = "playlists.insert" /\ requests[q].ok)
         /\ requests[q].op \notin {"playlistItems.list", "playlistItems.insert"}
    /\ pc = "exit" => exit_status # 0

\* C10: a run that ends on a fatal condition (bad date, unknown category, no
\* channels, no playlist, unexpected error) exits non-zero, and only a run
\* that synchronized a playlist or found no videos exits with status zero.
C10_FatalExitsNonZero ==
  pc = "exit" =>
    /\ outcome \in {"bad_date", "unknown_category", "no_category_config",
                     "no_channels", "no_valid_channels", "no_playlist", "error"}
         => exit_status # 0
    /\ exit_status = 0 => outcome \in {"synchronized", "no_videos"}

\* the arguments and configuration of the run are ones main must refuse
BadInput ==
  \/ args_date # NoDate /\ ~IsDate(args_date)
  \/ args_category \notin DOMAIN CATEGORIES
  \/ /\ args_category \in DOMAIN CATEGORIES
     /\ \/ IsEmptyConfig(CATEGORIES[args_category])
        \/ CATEGORIES[args_category].channels = <<>>
        \/ ChannelConfigs(CATEGORIES[args_category].channels) = <<>>

\* C11: a run with a badly formatted date, an unknown or empty category, or a
\* category without configured or valid channels issues no request at all (no
\* authentication, search, playlist or membership request), and when it has
\* ended its exit status is non-zero.
C11_InputErrorsBeforeRemote ==
  (caller = "main" /\ pc # "idle" /\ BadInput) =>
    /\ requests = <<>>
    /\ pc \in {"main", "category_config", "exit"}
    /\ pc = "exit" => exit_status # 0

C11_Witness ==
  /\ caller = "main"
  /\ pc = "exit"
  /\ args_category = "dev"
  /\ args_date = "2024-01-02"
  /\ exit_status = 1
  /\ requests = <<>>

\* ======================================================================
\* Properties of DateConfig.get_date_range (specification DateSpec)
\* ======================================================================
\* the local clock shows a time of day d
IsToday(d) ==
  /\ StartOfDay(d) <= now + utc_offset * TicksPerHour
  /\ now + utc_offset * TicksPerHour < StartOfDay(d + 1)

\* C12: for every target date, every current instant and every hours_back
\* (set or not), the window get_date_range returns has start < end.
C12_StartBeforeEnd ==
  pc = "date_done" => start_time < end_time

\* C13: with hours_back set the window is exactly hours_back hours long; its
\* end is the current instant when target_date is today, else the last
\* instant of target_date; without hours_back it starts at the start of
\* target_date.
C13_WindowFromHoursBack ==
  pc = "date_done" =>
    /\ IsToday(self_target_date) => end_time = now
    /\ ~IsToday(self_target_date) => end_time = StartOfDay(self_target_date + 1) - 1
    /\ self_hours_back # None =>
         end_time - start_time = self_hours_back * TicksPerHour
    /\ self_hours_back = None => start_time = self_target_date * 24 * TicksPerHour

C13_Witness ==
  /\ pc = "date_done"
  /\ self_hours_back = 7
  /\ self_target_date = 1
  /\ ~IsToday(1)
  /\ end_time - start_time = 7 * TicksPerHour
  /\ end_time < now

\* ======================================================================
\* Properties of the stored description (specification DescSpec)
\* ======================================================================
\* C15: the description of a video record is the first 100 characters of the
\* raw description followed by three dots, 103 characters, when the raw text
\* is longer than 100 characters, and the raw text itself otherwise.
C15_DescriptionTruncated ==
  pc = "search_done" =>
    \A v \in 1..Len(all_videos) :
      LET raw == platform[1][1].description
          stored == all_videos[v].description
      IN  IF Len(raw) > 100
          THEN /\ Len(stored) = 103
               /\ \A k \in 1..100 : stored[k] = raw[k]
               /\ \A k \in 101..103 : stored[k] = "."
          ELSE stored = raw

C15_Witness ==
  /\ pc = "search_done"
  /\ Len(all_videos) = 1
  /\ Len(platform[1][1].description) = 101
  /\ Len(all_videos[1].description) = 103
  /\ all_videos[1].description[100] # "."

\* ======================================================================
\* More properties of search_multiple_channels (specification SearchSpec)
\* ======================================================================
\* the platform channel a record came from
ChannelOf(v) == v.video_id \div 10

\* descriptors named n whose search of channel c answered
Producers(n, c) ==
  {k \in 1..Len(channel_configs) :
     /\ channel_configs[k].name = n
     /\ chan_status[k].channel_id = c
     /\ ~chan_status[k].failed}

\* C14: every record returned carries as source_channel the name of a
\* descriptor whose search of the record's channel produced it, each such
\* descriptor accounts for its own records, and the platform's channel title
\* stays in channel_title, also when descriptors of different names lead to
\* one channel title.
C14_SourceChannelIsDescriptorName ==
  pc = "search_done" =>
    /\ \A v \in 1..Len(all_videos) :
         /\ Producers(all_videos[v].source_channel, ChannelOf(all_videos[v])) # {}
         /\ all_videos[v].channel_title = ChannelTitle(ChannelOf(all_videos[v]))
    /\ \A n \in {"CNBC", "Bloomberg"}, c \in ChannelIds :
         Cardinality({v \in 1..Len(all_videos) :
                        /\ all_videos[v].source_channel = n
                        /\ ChannelOf(all_videos[v]) = c})
           = Cardinality(Producers(n, c)) * Min(max_results, Len(platform[c]))

\* two descriptors of different names searched the same channel
C14_Witness ==
  /\ pc = "search_done"
  /\ Len(all_videos) = 2
  /\ all_videos[1].video_id = all_videos[2].video_id
  /\ all_videos[1].channel_title = all_videos[2].channel_title
  /\ all_videos[1].source_channel = "Bloomberg"
  /\ all_videos[2].source_channel = "CNBC"

\* the video requests issued for descriptor k, in order
VideoRequests(k) ==
  SelectSeq(requests, LAMBDA q : q.arg.type = "video" /\ q.arg.ci = k)

\* the page the platform holds for request q of descriptor k
PageOf(k, q) ==
  SearchPage(chan_status[k].channel_id, q.arg.maxResults, q.arg.pageToken)

RECURSIVE Collected(_, _)
\* records on the pages of the first j video requests of descriptor k
Collected(k, j) ==
  IF j = 0 THEN 0
  ELSE Collected(k, j - 1) + Len(PageOf(k, VideoRequests(k)[j]).items)

\* C16: the video requests of a channel follow one another with the page
\* token the platform returned, each asks for min(50, max_results - collected)
\* items and is only issued while fewer than max_results are collected and a
\* next page exists; a search without failure returns the first
\* min(max_results, N) videos of the channel in platform order.
C16_SequentialPaging ==
  /\ \A k \in 1..Len(chan_status) :
       \A j \in 1..Len(VideoRequests(k)) :
         LET q == VideoRequests(k)[j]
         IN  /\ q.arg.maxResults = Min(50, max_results - Collected(k, j - 1))
             /\ Collected(k, j - 1) < max_results
             /\ j = 1 => q.arg.pageToken = None
             /\ j > 1 =>
                  /\ VideoRequests(k)[j - 1].ok
                  /\ PageOf(k, VideoRequests(k)[j - 1]).nextPageToken # None
                  /\ q.arg.pageToken = PageOf(k, VideoRequests(k)[j - 1]).nextPageToken
  /\ (pc = "smc_extend" /\ ~chan_status[ci].failed) =>
       LET all == platform[channel_id]
           last == VideoRequests(ci)[Len(VideoRequests(ci))]
       IN  /\ Len(channel_videos) <= max_results
           /\ channel_videos = [j \in 1..Min(max_results, Len(all)) |-> VideoData(all[j])]
           /\ \/ Len(channel_videos) = max_results
              \/ PageOf(ci, last).nextPageToken = None

\* a second request asks for what is missing, and more videos remain after it
C16_Witness ==
  /\ pc = "smc_extend"
  /\ ~chan_status[ci].failed
  /\ max_results = 2
  /\ Len(platform[channel_id]) = 3
  /\ Len(VideoRequests(ci)) = 2
  /\ VideoRequests(ci)[1].arg.maxResults = 2
  /\ VideoRequests(ci)[2].arg.maxResults = 1
  /\ Len(channel_videos) = 2

\* C17: no two records of the list search_multiple_channels returns have the
\* same video_id, whatever the channel descriptors are.
C17_NoDuplicateVideoIds ==
  pc = "search_done" =>
    \A a, b \in 1..Len(all_videos) :
      all_videos[a].video_id = all_videos[b].video_id => a = b

\* ======================================================================
\* More properties of main (specification MainSpec)
\* ======================================================================
\* no step removes, changes or moves a playlist or a member
KeepsWhatIsThere ==
  /\ Len(playlists') >= Len(playlists)
  /\ \A k \in 1..Len(playlists) : playlists'[k] = playlists[k]
  /\ \A p \in PlaylistIds :
       /\ Len(items'[p]) >= Len(items[p])
       /\ SubSeq(items'[p], 1, Len(items[p])) = items[p]

\* C18: a run never deletes, changes or reorders a playlist or a member, so
\* the membership before the run is a prefix of the one after it, and every
\* video id it appends was not a member when the run listed the playlist.
C18_RunOnlyAppendsNew ==
  [][/\ KeepsWhatIsThere
     /\ \A p \in PlaylistIds :
          \A k \in (Len(items[p]) + 1)..Len(items'[p]) :
            items'[p][k] \notin Range(items_before)]_vars

\* the part of C18 that is about deleting, changing and reordering
OnlyGrows == [][KeepsWhatIsThere]_vars

\* C19: when the lookup found nothing and the create request fails,
\* get_or_create_playlist returns a null id and a null URL, and the run issues
\* no membership listing and no membership insert after it.
C19_FailedCreateEndsRun ==
  \A r \in FailedRequests("playlists.insert") :
    /\ pc = "goc_done" => (playlist_id = None /\ playlist_url = None)
    /\ \A q \in (r + 1)..Len(requests) :
         requests[q].op \notin {"playlistItems.list", "playlistItems.insert"}
    /\ pc \in {"goc_done", "exit"}

C19_Witness ==
  /\ pc = "exit"
  /\ FailedRequests("playlists.insert") # {}
  /\ FailedRequests("playlists.list") = {}
  /\ all_videos # <<>>
  /\ playlist_id = None

\* ======================================================================
\* More properties of get_or_create_playlist (specification GocSpec)
\* ======================================================================
\* places on the one page of at most 50 playlists that carry the title
Matches == {k \in 1..Min(50, Len(playlists)) : playlists[k].title = title}

\* C20: find_existing_playlist issues exactly one list request and returns
\* the id of the first playlist of that page with exactly the title, or
\* nothing when the page has none; get_or_create_playlist goes on to create
\* a playlist only when no playlist of the page carries the title.
C20_OneLookupThenCreateIfAbsent ==
  /\ pc \in {"get_or_create_playlist", "create_playlist"} =>
       /\ Cardinality({r \in 1..Len(requests) : requests[r].op = "playlists.list"}) = 1
       /\ requests[Len(requests)].ok =>
            /\ Matches = {} => find_result = None
            /\ Matches # {} =>
                 \E k \in Matches : /\ find_result = playlists[k].id
                                    /\ \A j \in Matches : k <= j
  /\ pc = "create_playlist" => Matches = {}

\* the search of the run has returned, with an empty list
SearchReturnedNothing ==
  /\ caller = "main"
  /\ \E r \in 1..Len(requests) : requests[r].op = "authenticate" /\ requests[r].ok
  /\ pc \notin {"authenticate", "search_multiple_channels", "search_channel_videos",
                 "smc_extend"}
  /\ all_videos = <<>>

\* C21: a run whose search returned no videos issues no playlist lookup, no
\* playlist creation, no membership listing and no membership insert, and it
\* ends with exit status zero in the no-videos outcome, which is none of the
\* failure outcomes.
C21_NoVideosEndsNormally ==
  SearchReturnedNothing =>
    /\ \A r \in 1..Len(requests) :
         requests[r].op \notin {"playlists.list", "playlists.insert",
                                "playlistItems.list", "playlistItems.insert"}
    /\ pc \in {"search_done", "exit"}
    /\ pc = "exit" =>
         /\ exit_status = 0
         /\ outcome = "no_videos"
         /\ outcome \notin {"bad_date", "unknown_category", "no_category_config",
                             "no_channels", "no_valid_channels", "no_playlist",
                             "error"}

\* the channel was searched, a page came back, a later page failed
C21_Witness ==
  /\ pc = "exit"
  /\ outcome = "no_videos"
  /\ exit_status = 0
  /\ \E r \in 1..Len(requests) : requests[r].op = "search.list" /\ requests[r].ok
  /\ \E r \in 1..Len(requests) : requests[r].op = "search.list" /\ ~requests[r].ok

\* ======================================================================
\* Termination of a run (specification LiveSpec)
\* ======================================================================
\* C22: every started run reaches a terminal state, whatever the platform
\* answers: successes, errors, empty pages and pages carrying a next-page
\* token; the loops of search_channel_videos and of get_playlist_video_ids
\* end after finitely many page requests.
C22_RunTerminates == (pc = "main") ~> (pc = "exit")

====
